---- MODULE Spec2Model ----
(***************************************************************************)
(* Model of the Peppol invoice report generator (src/unnamed/part_000):    *)
(* the status resolver, the business status manager and the run of         *)
(* InvoiceReportGenerator.generateReport under main, against a remote API  *)
(* whose answers (and failures) are nondeterministic.                      *)
(***************************************************************************)
EXTENDS Integers, Sequences, FiniteSets, TLC

\* ------------------------------------------------------------------ bounds
MaxLen == 3
MaxTime == 2
MaxIn == 2
MaxDocs == 3
MaxTid == 2
MaxEnv == 1
MaxFail == 1

\* ------------------------------------------------------- program constants
\* CONFIG.businessStatus.codes / finalStatuses
ACCEPTED == "accepted"
REJECTED == "rejected"
FinalStatuses == {ACCEPTED, REJECTED}
\* CONFIG.settings.finalStatusWaitTime and countdown's default intervalMs
finalStatusWaitTime == 30000
intervalMs == 5000

\* A missing (undefined, null or empty) JSON field: falsy in JavaScript.
Absent == ""
\* The value `x || '-'` of the source.
OrDash(x) == IF x = Absent THEN "-" ELSE x

\* ------------------------------------------------------- status resolver
\* A status record: attributes code, technicalStatus, createdAt (a time).
Codes == {Absent, "received", ACCEPTED, REJECTED}
TechStates == {Absent, "delivered"}

\* Array.prototype.sort is stable: an element goes after every element the
\* comparator does not put behind it.  cmp(a, b) = b.createdAt - a.createdAt,
\* so x is inserted before the first element with a smaller createdAt.
RECURSIVE InsertDesc(_, _)
InsertDesc(sorted, x) ==
  IF sorted = <<>> THEN <<x>>
  ELSE IF Head(sorted).createdAt < x.createdAt THEN <<x>> \o sorted
  ELSE <<Head(sorted)>> \o InsertDesc(Tail(sorted), x)

RECURSIVE SortByCreatedAtDesc(_)
SortByCreatedAtDesc(s) ==
  IF s = <<>> THEN <<>>
  ELSE InsertDesc(SortByCreatedAtDesc(SubSeq(s, 1, Len(s) - 1)), s[Len(s)])

\* A slip that sorts oldest first.
GetLatestStatusOldest(statuses) ==
  IF Len(statuses) = 0 THEN [code |-> "-", technicalStatus |-> "-"]
  ELSE LET sorted == SortByCreatedAtDesc(statuses)
           latest == sorted[Len(sorted)]
       IN [code |-> OrDash(latest.code),
           technicalStatus |-> OrDash(latest.technicalStatus)]

\* StatusResolver.getLatestStatus
GetLatestStatus(statuses) ==
  IF Len(statuses) = 0 THEN [code |-> "-", technicalStatus |-> "-"]
  ELSE LET sorted == SortByCreatedAtDesc(statuses)
           latest == sorted[1]
       IN [code |-> OrDash(latest.code),
           technicalStatus |-> OrDash(latest.technicalStatus)]

\* StatusResolver.hasStatus
HasStatus(statuses, statusCode) ==
  \E i \in 1..Len(statuses) : statuses[i].code = statusCode

\* StatusResolver.hasAnyStatus
HasAnyStatus(statuses, statusCodes) ==
  \E i \in 1..Len(statuses) : statuses[i].code \in statusCodes

\* StatusResolver.getExistingStatusCodes
GetExistingStatusCodes(statuses) ==
  [i \in 1..Len(statuses) |-> statuses[i].code]

\* The greatest createdAt of a non-empty status list.
MaxCreatedAt(s) ==
  CHOOSE m \in {s[i].createdAt : i \in 1..Len(s)} :
    \A j \in 1..Len(s) : s[j].createdAt <= m

\* ------------------------------------------------------------ documents
\* A document without a transmissionId (undefined, null, ''): falsy.
NoTid == 0

\* Time is counted in ticks of half a day; a calendar day has TicksPerDay.
TicksPerDay == 2
\* cutoffDate = new Date('2025-11-28T00:00:00Z'): midnight UTC of CutoffDay.
CutoffDay == 10
cutoffDate == CutoffDay * TicksPerDay
\* The offsets of the local time zone from UTC, in ticks.
TzOffsets == {-1, 0, 1}

SeqsUpTo(S, n) == UNION {[1..k -> S] : k \in 0..n}

\* A response of GET /peppol/inbound-documents: documents with ids 1..n.
WithIds(l) ==
  [i \in 1..Len(l) |-> [id |-> i, transmissionId |-> l[i].transmissionId,
                        createdAt |-> l[i].createdAt]]
InboundLists(n, tids, createdAts) ==
  {WithIds(l) : l \in SeqsUpTo([transmissionId : tids, createdAt : createdAts], n)}

\* A response of GET /peppol/documents: documents with ids 1..n.
WithOutIds(l) ==
  [i \in 1..Len(l) |-> [id |-> i, transmissionId |-> l[i].transmissionId]]
OutboundLists(n, tids) ==
  {WithOutIds(l) : l \in SeqsUpTo([transmissionId : tids], n)}

\* The XML of an inbound document: cbc:ID, cbc:Note and cbc:IssueDate, each
\* possibly missing; IssueDate is a calendar day.  A response of
\* GET /peppol/inbound-documents/{id} is the XML, or the request fails.
NoDate == 0
XmlFailure == [ok |-> FALSE, ID |-> Absent, Note |-> Absent, IssueDate |-> NoDate]
Xml(id, note, issueDay) ==
  [ok |-> TRUE, ID |-> id, Note |-> note, IssueDate |-> issueDay]
NoXml == [ok |-> FALSE, ID |-> "?", Note |-> "?", IssueDate |-> NoDate]

\* XmlParser.parseInvoiceDetails: a date-only IssueDate parses to midnight
\* UTC of that day.
ParseInvoiceDetails(xml) ==
  [invoiceNumber |-> IF xml.ID = Absent THEN "Niet gevonden" ELSE xml.ID,
   description |-> OrDash(xml.Note),
   issueDate |-> IF xml.IssueDate = NoDate THEN NoDate
                 ELSE xml.IssueDate * TicksPerDay]

\* InvoiceReportGenerator.fetchXmlDetailsSafe, given the response
FetchXmlDetailsSafe(resp) ==
  IF resp.ok THEN ParseInvoiceDetails(resp)
  ELSE [invoiceNumber |-> "Error", description |-> "Error", issueDate |-> NoDate]

\* InvoiceReportGenerator.fetchBusinessStatusSafe, given the remote list and
\* whether the request succeeds
FetchBusinessStatusSafe(ok, statuses) ==
  IF ok THEN statuses ELSE <<>>

\* Responses of POST .../business-statuses: created (2xx with the new
\* record), a 2xx whose body has no data, or an error with or without a
\* JSON:API error detail.
PostCreated == [kind : {"created"}, technicalStatus : {"delivered"},
                detail : {Absent}, message : {Absent}]
PostMalformed == [kind : {"malformed"}, technicalStatus : {Absent},
                  detail : {Absent}, message : {"Cannot read properties of undefined"}]
PostErrors == [kind : {"error"}, technicalStatus : {Absent},
               detail : {Absent, "Cannot transition"}, message : {"Request failed"}]
NoResp == [kind |-> "none", technicalStatus |-> Absent, detail |-> Absent,
           message |-> Absent]

\* The result of a submission; NoFinal stands for a missing `final` entry.
NoFinal == [success |-> FALSE, statusCode |-> Absent, technicalStatus |-> Absent,
            error |-> Absent]

\* A slip that reports the generic message only.
SendStatusGeneric(statusCode, resp) ==
  IF resp.kind = "created"
  THEN [success |-> TRUE, statusCode |-> statusCode,
        technicalStatus |-> resp.technicalStatus, error |-> Absent]
  ELSE [success |-> FALSE, statusCode |-> statusCode, technicalStatus |-> Absent,
        error |-> resp.message]

\* BusinessStatusManager.sendStatus, given the response of the POST: a
\* created record gives success; anything else is caught (a body without
\* data throws a TypeError inside the try) and gives the first error detail,
\* or else the message of the error.
SendStatus(statusCode, resp) ==
  IF resp.kind = "created"
  THEN [success |-> TRUE, statusCode |-> statusCode,
        technicalStatus |-> resp.technicalStatus, error |-> Absent]
  ELSE [success |-> FALSE, statusCode |-> statusCode, technicalStatus |-> Absent,
        error |-> IF resp.detail # Absent THEN resp.detail ELSE resp.message]

\* A slip that looks at the latest record only.
AnalyzeDocumentByLatest(documentId, statuses) ==
  LET hasFinalStatus == GetLatestStatus(statuses).code \in FinalStatuses
  IN [documentId |-> documentId,
      statuses |-> statuses,
      hasFinalStatus |-> hasFinalStatus,
      existingCodes |-> GetExistingStatusCodes(statuses),
      needsFinalStatus |-> ~hasFinalStatus,
      isComplete |-> hasFinalStatus]

\* BusinessStatusManager.analyzeDocument, given the fetched status list
AnalyzeDocument(documentId, statuses) ==
  LET hasFinalStatus == HasAnyStatus(statuses, FinalStatuses)
  IN [documentId |-> documentId,
      statuses |-> statuses,
      hasFinalStatus |-> hasFinalStatus,
      existingCodes |-> GetExistingStatusCodes(statuses),
      needsFinalStatus |-> ~hasFinalStatus,
      isComplete |-> hasFinalStatus]

\* A slip that keeps the documents without a transmissionId.
BuildOutboundMapUnfiltered(outDocs) ==
  LET keys == {outDocs[i].transmissionId : i \in 1..Len(outDocs)}
  IN [t \in keys |->
        outDocs[CHOOSE i \in 1..Len(outDocs) :
                  /\ outDocs[i].transmissionId = t
                  /\ \A j \in (i + 1)..Len(outDocs) : outDocs[j].transmissionId # t]]

\* A slip that keeps, for a key set twice, the value set first.
BuildOutboundMapFirst(outDocs) ==
  LET keys == {outDocs[i].transmissionId : i \in 1..Len(outDocs)} \ {NoTid}
  IN [t \in keys |->
        outDocs[CHOOSE i \in 1..Len(outDocs) :
                  /\ outDocs[i].transmissionId = t
                  /\ \A j \in 1..(i - 1) : outDocs[j].transmissionId # t]]

\* InvoiceReportGenerator.buildOutboundMap, given the fetched documents: a
\* Map keeps, for a key set twice, the value set last.
BuildOutboundMap(outDocs) ==
  LET keys == {outDocs[i].transmissionId : i \in 1..Len(outDocs)} \ {NoTid}
  IN [t \in keys |->
        outDocs[CHOOSE i \in 1..Len(outDocs) :
                  /\ outDocs[i].transmissionId = t
                  /\ \A j \in (i + 1)..Len(outDocs) : outDocs[j].transmissionId # t]]

\* InvoiceReportGenerator.findMatches
FindMatches(inDocs, outMap) ==
  LET has(doc) == doc.transmissionId \in DOMAIN outMap
      found == SelectSeq(inDocs, has)
  IN [i \in 1..Len(found) |->
        [inbound |-> found[i],
         outbound |-> outMap[found[i].transmissionId],
         transmissionId |-> found[i].transmissionId]]

\* The characters of the invoice numbers of the model.
Chars(s) ==
  CASE s = "7" -> <<"7">>
    [] s = "10" -> <<"1", "0">>
    [] s = "5" -> <<"5">>
    [] s = " 7" -> <<" ", "7">>
    [] s = "#12" -> <<"#", "1", "2">>
    [] s = "Error" -> <<"E", "r", "r", "o", "r">>
    [] s = "Niet gevonden" ->
         <<"N", "i", "e", "t", " ", "g", "e", "v", "o", "n", "d", "e", "n">>
    [] OTHER -> <<>>

Digits == <<"0", "1", "2", "3", "4", "5", "6", "7", "8", "9">>
IsDigit(c) == \E d \in 1..10 : Digits[d] = c
DigitValue(c) == (CHOOSE d \in 1..10 : Digits[d] = c) - 1

RECURSIVE SkipSpaces(_)
SkipSpaces(cs) ==
  IF cs # <<>> /\ Head(cs) = " " THEN SkipSpaces(Tail(cs)) ELSE cs

RECURSIVE LeadingDigitsValue(_, _)
LeadingDigitsValue(cs, acc) ==
  IF cs # <<>> /\ IsDigit(Head(cs))
  THEN LeadingDigitsValue(Tail(cs), 10 * acc + DigitValue(Head(cs)))
  ELSE acc

\* parseInt(s, 10) of an invoice number: leading white space is skipped and
\* the longest run of digits is read; NaN (-1 here) when there is no digit.
\* No invoice number of the model has a sign.
NaN == -1
ParseInt(s) ==
  LET cs == SkipSpaces(Chars(s))
  IN IF cs # <<>> /\ IsDigit(Head(cs)) THEN LeadingDigitsValue(cs, 0) ELSE NaN

\* The place of a character in the order of localeCompare: white space,
\* then punctuation, then digits, then letters whatever their case.
Letters == <<"d", "e", "g", "i", "n", "o", "r", "t", "v">>
CollationKey(c) ==
  CASE c = " " -> 0
    [] c = "#" -> 1
    [] IsDigit(c) -> 2 + DigitValue(c)
    [] c = "E" -> 12 + 2
    [] c = "N" -> 12 + 5
    [] OTHER -> 12 + (CHOOSE k \in 1..9 : Letters[k] = c)

\* a.localeCompare(b) on the characters: negative, zero or positive.
RECURSIVE CompareChars(_, _)
CompareChars(as, bs) ==
  IF as = <<>> /\ bs = <<>> THEN 0
  ELSE IF as = <<>> THEN -1
  ELSE IF bs = <<>> THEN 1
  ELSE IF CollationKey(Head(as)) < CollationKey(Head(bs)) THEN -1
  ELSE IF CollationKey(Head(as)) > CollationKey(Head(bs)) THEN 1
  ELSE CompareChars(Tail(as), Tail(bs))

LocaleCompare(a, b) == CompareChars(Chars(a), Chars(b))

\* The comparator of sortMatchesByInvoiceNumber: a goes after b.
InvoiceAfter(a, b) ==
  IF ParseInt(a) # NaN /\ ParseInt(b) # NaN THEN ParseInt(a) > ParseInt(b)
  ELSE LocaleCompare(a, b) > 0

RECURSIVE InsertByInvoice(_, _)
InsertByInvoice(sorted, x) ==
  IF sorted = <<>> THEN <<x>>
  ELSE IF InvoiceAfter(Head(sorted).invoiceNumber, x.invoiceNumber)
       THEN <<x>> \o sorted
       ELSE <<Head(sorted)>> \o InsertByInvoice(Tail(sorted), x)

RECURSIVE SortByInvoice(_)
SortByInvoice(s) ==
  IF s = <<>> THEN <<>>
  ELSE InsertByInvoice(SortByInvoice(SubSeq(s, 1, Len(s) - 1)), s[Len(s)])

\* InvoiceReportGenerator.sortMatchesByInvoiceNumber, given the invoice
\* number fetched for each match
SortMatchesByInvoiceNumber(ms, numbers) ==
  LET withNumbers == [i \in 1..Len(ms) |->
                        [match |-> ms[i], invoiceNumber |-> numbers[i]]]
      sortedPairs == SortByInvoice(withNumbers)
  IN [i \in 1..Len(ms) |-> sortedPairs[i].match]

\* A slip that drops the error of a failed submission from the action.
FormatActionsNoError(processResult) ==
  IF processResult.statusCode = Absent THEN <<>>
  ELSE <<[statusCode |-> processResult.statusCode,
          mark |-> IF ~processResult.success THEN "cross"
                   ELSE IF processResult.statusCode = ACCEPTED THEN "thumbsUp"
                   ELSE "thumbsDown",
          error |-> Absent]>>

\* A slip that lists a submission only when it succeeded.
FormatActionsSuccessOnly(processResult) ==
  IF processResult.statusCode = Absent \/ ~processResult.success THEN <<>>
  ELSE <<[statusCode |-> processResult.statusCode,
          mark |-> IF processResult.statusCode = ACCEPTED THEN "thumbsUp"
                   ELSE "thumbsDown",
          error |-> Absent]>>

\* InvoiceReportGenerator.formatActions: `code 👍`, `code 👎` or
\* `code ❌ (error)` for the final submission of the run, if any.
FormatActions(processResult) ==
  IF processResult.statusCode = Absent THEN <<>>
  ELSE <<[statusCode |-> processResult.statusCode,
          mark |-> IF ~processResult.success THEN "cross"
                   ELSE IF processResult.statusCode = ACCEPTED THEN "thumbsUp"
                   ELSE "thumbsDown",
          error |-> IF processResult.success THEN Absent
                    ELSE processResult.error]>>

\* What printMatch prints and writeInvoiceToFile writes for one match.
ReportLines(match, xmlDetails, inboundStatus, processResult) ==
  [invoiceNumber |-> xmlDetails.invoiceNumber,
   description |-> xmlDetails.description,
   outboundId |-> match.outbound.id,
   transmissionId |-> match.transmissionId,
   inboundId |-> match.inbound.id,
   technicalStatus |-> inboundStatus.technicalStatus,
   code |-> inboundStatus.code,
   actions |-> FormatActions(processResult)]

VARIABLES
  rsStatuses, rsLatest,       \* the resolver on its own: input and result
  rsPermuted, rsCalls,        \* the resolver on a list and a permutation of it
  rsAnalysis,                 \* analyzeDocument on its own: its result
  sortCall,                   \* sortMatchesByInvoiceNumber on its own
  pairCall,                   \* the pairing of the two scripts on the same lists
  sender,                     \* the single-document sender (temp/state3.js)
  io,                         \* the requests of a run and those in flight
  tz,                         \* offset of the local time zone
  remote,                     \* remote status list of each inbound document
  envLeft,                    \* status posts other clients may still make
  failLeft,                   \* fetch failures the report steps may still meet
  pc,                         \* position of main / generateReport
  inboundDocs, outboundDocs,  \* the fetched lists
  outboundMap, matches,
  analysis,
  idx,                        \* index of the running for-loop
  nov28AndLater, beforeNov28,
  phase,                      \* the partition being handled: 1, 2; 3 after
  sendList, successCount,
  processResults,
  sortedMatches, freshOutboundMap,
  console, fileLines, saved,  \* the printed and the written report
  exitCode,
  fatal,                      \* the call whose failure reached main's catch
  called,                     \* the operations issued so far
  posts,                      \* the status submissions issued so far
  waited,                     \* ms slept after each partition
  lastXml, lastResp           \* the response the running loop got last

unitVars == <<rsPermuted, rsCalls, rsAnalysis, sortCall, pairCall, sender, io>>

reportVars == <<sortedMatches, freshOutboundMap, console, fileLines, saved>>

runVars ==
  <<inboundDocs, outboundDocs, outboundMap, matches, analysis, idx,
    nov28AndLater, beforeNov28, phase, sendList, successCount, processResults,
    posts, waited, lastXml, lastResp>>

progVars ==
  <<tz, remote, envLeft, failLeft, pc, exitCode, fatal, called, runVars, reportVars>>

vars == <<rsStatuses, rsLatest, unitVars, progVars>>

NoResult == [code |-> "?", technicalStatus |-> "?"]

DocIds == 1..MaxIn

\* ---------------------------------------------------------- the remote
Status(code, createdAt) ==
  [code |-> code, technicalStatus |-> "delivered", createdAt |-> createdAt]

\* What a document's status list may hold before the run; the API returns
\* the list in no particular order.
InitialStatusLists ==
  {<<>>, <<Status("received", 1)>>, <<Status(ACCEPTED, 2), Status("received", 1)>>}

\* The code of the record with the greatest createdAt; "-" for no record.
RemoteLatestCode(statuses) ==
  IF statuses = <<>> THEN "-"
  ELSE LET i == CHOOSE k \in 1..Len(statuses) :
                  \A j \in 1..Len(statuses) :
                    statuses[j].createdAt <= statuses[k].createdAt
       IN statuses[i].code

NextCreatedAt(statuses) ==
  IF statuses = <<>> THEN 1
  ELSE 1 + MaxCreatedAt(statuses)

\* The remote API lets no status follow accepted or rejected.
RemoteAllows(statuses) == RemoteLatestCode(statuses) \notin FinalStatuses

\* The responses the remote may give to a POST for a document.
PostResponses(statuses) ==
  IF RemoteAllows(statuses) THEN PostCreated \cup PostMalformed \cup PostErrors
  ELSE PostErrors

\* The remote list after a POST that got the response resp.
RemoteAfterPost(statuses, code, resp) ==
  IF resp.kind \in {"created", "malformed"}
  THEN Append(statuses, [code |-> code,
                         technicalStatus |-> resp.technicalStatus,
                         createdAt |-> NextCreatedAt(statuses)])
  ELSE statuses

\* ------------------------------------------------ the inputs of the run
\* The run as a whole is checked with one transmission id and one createdAt
\* (half a day before the cutoff); the matching and the date split are
\* checked on their own with more.
RunTids == {NoTid, 1}
RunInbound == InboundLists(MaxIn, RunTids, {cutoffDate - 1})
RunOutbound == OutboundLists(1, RunTids)

\* The invoice number in the XML of each inbound document.
InvoiceNumberOf(doc) == IF doc = 1 THEN "10" ELSE "7"

\* What splitByDate may get for the XML of a document.
RunXml ==
  [doc \in DocIds |->
     {XmlFailure, Xml(InvoiceNumberOf(doc), "note", CutoffDay),
      Xml(InvoiceNumberOf(doc), Absent, CutoffDay - 1)}]

\* What the report steps may get for the XML of a document.
ReportXml ==
  [doc \in DocIds |-> {XmlFailure, Xml(InvoiceNumberOf(doc), "note", CutoffDay)}]

\* ------------------------------------------------------------ the run
Fresh ==
  /\ inboundDocs = <<>> /\ outboundDocs = <<>>
  /\ outboundMap = <<>> /\ matches = <<>>
  /\ analysis = <<>>
  /\ idx = 0
  /\ nov28AndLater = <<>> /\ beforeNov28 = <<>>
  /\ phase = 0
  /\ sendList = <<>> /\ successCount = 0
  /\ processResults = [d \in DocIds |-> NoFinal]
  /\ sortedMatches = <<>> /\ freshOutboundMap = <<>>
  /\ console = <<>> /\ fileLines = <<>> /\ saved = FALSE
  /\ exitCode = -1
  /\ fatal = "none"
  /\ called = {}
  /\ posts = <<>>
  /\ waited = [p \in 1..2 |-> 0]
  /\ lastXml = NoXml /\ lastResp = NoResp

\* Nothing is called on its own.
NoCall == [done |-> FALSE]

PermuteIdle == rsPermuted = <<>> /\ rsCalls = NoCall
AnalyzeIdle == rsAnalysis = NoCall
SortIdle == sortCall = NoCall
PairIdle == pairCall = NoCall
SenderIdle == sender = NoCall
IOIdle == io = NoCall

UnitIdle ==
  PermuteIdle /\ AnalyzeIdle /\ SortIdle /\ PairIdle /\ SenderIdle /\ IOIdle

\* The program is not run: the state of the specifications of one function.
Idle ==
  /\ tz = 0
  /\ remote = [d \in DocIds |-> <<>>]
  /\ envLeft = 0
  /\ failLeft = 0
  /\ pc = "idle"
  /\ Fresh

InitIn(tzs) ==
  /\ rsStatuses = <<>> /\ rsLatest = NoResult
  /\ UnitIdle
  /\ tz \in tzs
  /\ remote \in [DocIds -> InitialStatusLists]
  /\ envLeft = MaxEnv
  /\ failLeft = MaxFail
  /\ pc = "start"
  /\ Fresh

Init == InitIn({0})

\* An exception thrown by `call` that nothing catches before main's catch.
Throw(call) ==
  /\ pc' = "catch"
  /\ fatal' = call

\* main: createHttpClient throws when the certificate file is missing.
CreateHttpClient ==
  /\ pc = "start"
  /\ \E found \in BOOLEAN :
       IF found THEN pc' = "authenticate" /\ UNCHANGED fatal
       ELSE Throw("createHttpClient")
  /\ UNCHANGED <<rsStatuses, rsLatest, unitVars, tz, failLeft, remote, envLeft, exitCode, called,
                 runVars, reportVars>>

\* main: await apiService.authenticate()
Authenticate ==
  /\ pc = "authenticate"
  /\ called' = called \cup {"authenticate"}
  /\ \E ok \in BOOLEAN :
       IF ok THEN pc' = "fetchInbound" /\ UNCHANGED fatal
       ELSE Throw("authenticate")
  /\ UNCHANGED <<rsStatuses, rsLatest, unitVars, tz, failLeft, remote, envLeft, exitCode,
                 runVars, reportVars>>

\* A slip that returns from the catch instead of process.exit(1).
MainCatchReturns ==
  /\ pc = "catch"
  /\ exitCode' = 0
  /\ pc' = "exited"
  /\ UNCHANGED <<rsStatuses, rsLatest, unitVars, tz, failLeft, remote, envLeft, fatal, called,
                 runVars, reportVars>>

\* main: catch (error) { ...; process.exit(1) }
MainCatch ==
  /\ pc = "catch"
  /\ exitCode' = 1
  /\ pc' = "exited"
  /\ UNCHANGED <<rsStatuses, rsLatest, unitVars, tz, failLeft, remote, envLeft, fatal, called,
                 runVars, reportVars>>

\* main returns: the process ends with exit code 0.
MainReturn ==
  /\ pc = "return"
  /\ exitCode' = 0
  /\ pc' = "exited"
  /\ UNCHANGED <<rsStatuses, rsLatest, unitVars, tz, failLeft, remote, envLeft, fatal, called,
                 runVars, reportVars>>

\* A slip that goes on without inbound documents.
AfterInboundAlways(docs) == "fetchOutbound"

\* fetchAndMatchDocuments: with no inbound document it returns [], and
\* generateReport returns on an empty match list.
AfterInbound(docs) == IF Len(docs) = 0 THEN "return" ELSE "fetchOutbound"

\* fetchAndMatchDocuments, first half: the inbound fetch.
FetchInbound(lists) ==
  /\ pc = "fetchInbound"
  /\ called' = called \cup {"fetchInboundDocuments"}
  /\ \/ /\ Throw("fetchInboundDocuments")
        /\ UNCHANGED inboundDocs
     \/ \E resp \in lists :
          /\ inboundDocs' = resp
          /\ pc' = AfterInbound(resp)
          /\ UNCHANGED fatal
  /\ UNCHANGED <<rsStatuses, rsLatest, unitVars, tz, failLeft, remote, envLeft, exitCode,
                 outboundDocs, outboundMap, matches, analysis, idx,
                 nov28AndLater, beforeNov28, phase, sendList, successCount,
                 processResults, posts, waited, lastXml, lastResp, reportVars>>

\* fetchAndMatchDocuments, second half: buildOutboundMap and findMatches;
\* with no match it returns [] and generateReport returns.
FetchOutboundAndMatch(lists) ==
  /\ pc = "fetchOutbound"
  /\ called' = called \cup {"fetchOutboundDocuments"}
  /\ \/ /\ Throw("fetchOutboundDocuments")
        /\ UNCHANGED <<outboundDocs, outboundMap, matches, idx>>
     \/ \E resp \in lists :
          LET map == BuildOutboundMap(resp)
              found == FindMatches(inboundDocs, map)
          IN /\ outboundDocs' = resp
             /\ outboundMap' = map
             /\ matches' = found
             /\ pc' = IF Len(found) = 0 THEN "return" ELSE "analyze"
             /\ idx' = 1
             /\ UNCHANGED fatal
  /\ UNCHANGED <<rsStatuses, rsLatest, unitVars, tz, failLeft, remote, envLeft, exitCode,
                 inboundDocs, analysis,
                 nov28AndLater, beforeNov28, phase, sendList, successCount,
                 processResults, posts, waited, lastXml, lastResp, reportVars>>

\* analyzeAllDocuments: one turn of the loop.  The status fetch of
\* analyzeDocument is not inside any try: its failure reaches main.
AnalyzeNext ==
  /\ pc = "analyze"
  /\ called' = called \cup {"fetchInboundBusinessStatuses"}
  /\ LET doc == matches[idx].inbound.id
     IN \/ /\ Throw("fetchInboundBusinessStatuses")
           /\ UNCHANGED <<analysis, idx>>
        \/ /\ analysis' = Append(analysis, AnalyzeDocument(doc, remote[doc]))
           /\ idx' = IF idx < Len(matches) THEN idx + 1 ELSE 1
           /\ pc' = IF idx < Len(matches) THEN "analyze" ELSE "split"
           /\ UNCHANGED fatal
  /\ UNCHANGED <<rsStatuses, rsLatest, unitVars, tz, failLeft, remote, envLeft, exitCode,
                 inboundDocs, outboundDocs, outboundMap, matches,
                 nov28AndLater, beforeNov28, phase, sendList, successCount,
                 processResults, posts, waited, lastXml, lastResp, reportVars>>

\* The calendar day of an instant in local time: what
\* new Date(d.getFullYear(), d.getMonth(), d.getDate()) keeps of d.
LocalDay(t) == (t + tz) \div TicksPerDay

\* A slip that makes the boundary exclusive.
IsNov28AndLaterExclusive(xmlDetails, createdAt) ==
  LET invoiceDate == IF xmlDetails.issueDate # NoDate THEN xmlDetails.issueDate
                     ELSE createdAt
  IN LocalDay(invoiceDate) > LocalDay(cutoffDate)

\* splitByDate's test: issueDate of the XML, else createdAt of the inbound
\* document, compared with the cutoff by local calendar day.
IsNov28AndLater(xmlDetails, createdAt) ==
  LET invoiceDate == IF xmlDetails.issueDate # NoDate THEN xmlDetails.issueDate
                     ELSE createdAt
  IN LocalDay(invoiceDate) >= LocalDay(cutoffDate)

\* splitByDate: one turn of the loop.
SplitNext(xmls) ==
  /\ pc = "split"
  /\ called' = called \cup {"fetchDocumentXml"}
  /\ \E resp \in xmls[matches[idx].inbound.id] :
       LET match == matches[idx]
           xmlDetails == FetchXmlDetailsSafe(resp)
       IN /\ lastXml' = resp
          /\ IF IsNov28AndLater(xmlDetails, match.inbound.createdAt)
             THEN /\ nov28AndLater' = Append(nov28AndLater, match)
                  /\ UNCHANGED beforeNov28
             ELSE /\ beforeNov28' = Append(beforeNov28, match)
                  /\ UNCHANGED nov28AndLater
  /\ idx' = IF idx < Len(matches) THEN idx + 1 ELSE 0
  /\ pc' = IF idx < Len(matches) THEN "split" ELSE "partition"
  /\ phase' = IF idx < Len(matches) THEN phase ELSE 1
  /\ UNCHANGED <<rsStatuses, rsLatest, unitVars, tz, failLeft, remote, envLeft, exitCode, fatal,
                 inboundDocs, outboundDocs, outboundMap, matches, analysis,
                 sendList, successCount, processResults, posts,
                 waited, lastResp, reportVars>>

Partition(p) == IF p = 1 THEN nov28AndLater ELSE beforeNov28

\* A slip that submits for every analysed document of a partition.
NeedsFinalUnfiltered(part) ==
  LET inPart(a) == \E i \in 1..Len(part) : part[i].inbound.id = a.documentId
  IN SelectSeq(analysis, inPart)

\* generateReport: the analysis entries of a partition that need a final
\* status.
NeedsFinal(part) ==
  LET inPart(a) == \E i \in 1..Len(part) : part[i].inbound.id = a.documentId
      needs(a) == a.needsFinalStatus
  IN SelectSeq(SelectSeq(analysis, inPart), needs)

\* generateReport: what follows the handling of partition `phase`.
AfterPartition ==
  /\ pc' = IF phase = 1 THEN "partition" ELSE "print"
  /\ phase' = phase + 1

\* generateReport: the test of a partition; submissions are made only when
\* the partition holds a document whose analysis needs a final status.
BeginPartition ==
  /\ pc = "partition"
  /\ lastXml' = NoXml
  /\ LET needsFinal == IF Len(Partition(phase)) > 0
                       THEN NeedsFinal(Partition(phase)) ELSE <<>>
     IN IF Len(needsFinal) > 0
        THEN /\ pc' = "send"
             /\ sendList' = needsFinal
             /\ idx' = 1
             /\ successCount' = 0
             /\ UNCHANGED phase
        ELSE /\ AfterPartition
             /\ UNCHANGED <<sendList, idx, successCount>>
  /\ UNCHANGED <<rsStatuses, rsLatest, unitVars, tz, failLeft, remote, envLeft, exitCode, fatal, called,
                 inboundDocs, outboundDocs, outboundMap, matches, analysis,
                 nov28AndLater, beforeNov28, processResults, posts,
                 waited, lastResp, reportVars>>

\* A slip that does not keep the result of a submission.
StoreResultDropped(results, documentId, result) == results

\* InvoiceReportGenerator.storeResult with phase 'final'
StoreResult(results, documentId, result) ==
  [results EXCEPT ![documentId] = result]

\* sendStatuses: one turn of the loop: a random final code, the POST and
\* the storing of its result.
SendNext ==
  /\ pc = "send"
  /\ called' = called \cup {"sendBusinessStatus"}
  /\ LET doc == sendList[idx].documentId
     IN \E statusCode \in FinalStatuses, resp \in PostResponses(remote[doc]) :
          LET result == SendStatus(statusCode, resp)
          IN /\ posts' = Append(posts, [documentId |-> doc,
                                        statusCode |-> statusCode,
                                        phase |-> phase,
                                        latest |-> RemoteLatestCode(remote[doc]),
                                        success |-> resp.kind = "created"])
             /\ remote' = [remote EXCEPT
                             ![doc] = RemoteAfterPost(remote[doc], statusCode, resp)]
             /\ processResults' = StoreResult(processResults, doc, result)
             /\ successCount' = IF result.success THEN successCount + 1
                                ELSE successCount
             /\ lastResp' = resp
  /\ idx' = IF idx < Len(sendList) THEN idx + 1 ELSE 0
  /\ pc' = IF idx < Len(sendList) THEN "send" ELSE "wait"
  /\ UNCHANGED <<rsStatuses, rsLatest, unitVars, tz, failLeft, envLeft, exitCode, fatal,
                 inboundDocs, outboundDocs, outboundMap, matches, analysis,
                 nov28AndLater, beforeNov28, phase, sendList,
                 waited, lastXml, reportVars>>

\* countdown: the ms slept by the loop
\*   while (remaining > 0) { await sleep(intervalMs); remaining -= intervalMs }
RECURSIVE CountdownSlept(_, _)
CountdownSlept(rem, interval) ==
  IF rem > 0 THEN interval + CountdownSlept(rem - interval, interval) ELSE 0

\* A slip that counts down whatever the number of successes.
WaitTimeAlways(count, waitTimeMs) ==
  CountdownSlept(waitTimeMs, intervalMs)

\* handleWaitTime: the countdown runs only after a success; the ms slept.
WaitTime(count, waitTimeMs) ==
  IF count > 0 THEN CountdownSlept(waitTimeMs, intervalMs) ELSE 0

\* generateReport: await this.handleWaitTime(successCount, ...), then on to
\* the next partition or to the report.
HandleWaitTime ==
  /\ pc = "wait"
  /\ lastResp' = NoResp
  /\ waited' = [waited EXCEPT ![phase] = WaitTime(successCount, finalStatusWaitTime)]
  /\ AfterPartition
  /\ UNCHANGED <<rsStatuses, rsLatest, unitVars, tz, failLeft, remote, envLeft, exitCode, fatal, called,
                 inboundDocs, outboundDocs, outboundMap, matches, analysis, idx,
                 nov28AndLater, beforeNov28, sendList, successCount,
                 processResults, posts, lastXml, reportVars>>

\* What the report steps read for a match: the outbound document of the
\* fresh index if it has the transmission id, else the matched one.
WithFreshOutbound(match, freshMap) ==
  [match EXCEPT !.outbound = IF match.transmissionId \in DOMAIN freshMap
                             THEN freshMap[match.transmissionId]
                             ELSE match.outbound]

\* The XML responses of one fetch per match.
XmlResponses(xmls, ms) ==
  {r \in [1..Len(ms) -> UNION {xmls[d] : d \in DOMAIN xmls}] :
     \A i \in 1..Len(ms) : r[i] \in xmls[ms[i].inbound.id]}

\* The number of failed fetches among responses.
Failures(r) == Cardinality({i \in DOMAIN r : ~r[i].ok})

\* The invoice numbers sortMatchesByInvoiceNumber gets from the responses.
InvoiceNumbers(r) ==
  [i \in DOMAIN r |-> FetchXmlDetailsSafe(r[i]).invoiceNumber]

\* printFinalResults, before its loop: the sort (an XML fetch per match,
\* each failure caught) and the fresh outbound index, whose fetch is not
\* caught.
PrintBegin(xmls, lists) ==
  /\ pc = "print"
  /\ called' = called \cup {"fetchDocumentXml", "fetchOutboundDocuments"}
  /\ \E r \in XmlResponses(xmls, matches) :
       /\ Failures(r) <= failLeft
       /\ failLeft' = failLeft - Failures(r)
       /\ sortedMatches' = SortMatchesByInvoiceNumber(matches, InvoiceNumbers(r))
       /\ \/ /\ Throw("fetchOutboundDocuments")
             /\ UNCHANGED <<freshOutboundMap, idx>>
          \/ \E resp \in lists :
               /\ freshOutboundMap' = BuildOutboundMap(resp)
               /\ idx' = 1
               /\ pc' = "printMatch"
               /\ UNCHANGED fatal
  /\ UNCHANGED <<rsStatuses, rsLatest, unitVars, tz, remote, envLeft, exitCode,
                 inboundDocs, outboundDocs, outboundMap, matches, analysis,
                 nov28AndLater, beforeNov28, phase, sendList, successCount,
                 processResults, posts, waited, lastXml, lastResp,
                 console, fileLines, saved>>

\* printFinalResults: one turn of the loop, printMatch included.
PrintMatchNext(xmls) ==
  /\ pc = "printMatch"
  /\ called' = called \cup {"fetchInboundBusinessStatuses", "fetchDocumentXml"}
  /\ \E ok \in BOOLEAN, resp \in xmls[sortedMatches[idx].inbound.id] :
       LET match == sortedMatches[idx]
           doc == match.inbound.id
           failed == Failures(<<resp>>) + (IF ok THEN 0 ELSE 1)
           freshInboundStatus ==
             GetLatestStatus(FetchBusinessStatusSafe(ok, remote[doc]))
       IN /\ failed <= failLeft
          /\ failLeft' = failLeft - failed
          /\ console' = Append(console,
                            ReportLines(WithFreshOutbound(match, freshOutboundMap),
                                        FetchXmlDetailsSafe(resp),
                                        freshInboundStatus,
                                        processResults[doc]))
  /\ idx' = IF idx < Len(sortedMatches) THEN idx + 1 ELSE 0
  /\ pc' = IF idx < Len(sortedMatches) THEN "printMatch" ELSE "save"
  /\ UNCHANGED <<rsStatuses, rsLatest, unitVars, tz, remote, envLeft, exitCode, fatal,
                 inboundDocs, outboundDocs, outboundMap, matches, analysis,
                 nov28AndLater, beforeNov28, phase, sendList, successCount,
                 processResults, posts, waited, lastXml, lastResp,
                 sortedMatches, freshOutboundMap, fileLines, saved>>

\* saveReportToFile, before its loop: fileWriter.init (mkdirSync may
\* throw), the sort and the fresh outbound index.
SaveBegin(xmls, lists) ==
  /\ pc = "save"
  /\ \/ /\ Throw("mkdirSync")
        /\ UNCHANGED <<called, failLeft, sortedMatches, freshOutboundMap, idx>>
     \/ /\ called' = called \cup {"fetchDocumentXml", "fetchOutboundDocuments"}
        /\ \E r \in XmlResponses(xmls, matches) :
             /\ Failures(r) <= failLeft
             /\ failLeft' = failLeft - Failures(r)
             /\ sortedMatches' = SortMatchesByInvoiceNumber(matches, InvoiceNumbers(r))
             /\ \/ /\ Throw("fetchOutboundDocuments")
                   /\ UNCHANGED <<freshOutboundMap, idx>>
                \/ \E resp \in lists :
                     /\ freshOutboundMap' = BuildOutboundMap(resp)
                     /\ idx' = 1
                     /\ pc' = "saveMatch"
                     /\ UNCHANGED fatal
  /\ UNCHANGED <<rsStatuses, rsLatest, unitVars, tz, remote, envLeft, exitCode,
                 inboundDocs, outboundDocs, outboundMap, matches, analysis,
                 nov28AndLater, beforeNov28, phase, sendList, successCount,
                 processResults, posts, waited, lastXml, lastResp,
                 console, fileLines, saved>>

\* saveReportToFile: one turn of the loop, writeInvoiceToFile included.
SaveMatchNext(xmls) ==
  /\ pc = "saveMatch"
  /\ called' = called \cup {"fetchInboundBusinessStatuses", "fetchDocumentXml"}
  /\ \E ok \in BOOLEAN, resp \in xmls[sortedMatches[idx].inbound.id] :
       LET match == sortedMatches[idx]
           doc == match.inbound.id
           failed == Failures(<<resp>>) + (IF ok THEN 0 ELSE 1)
           inboundStatus ==
             GetLatestStatus(FetchBusinessStatusSafe(ok, remote[doc]))
       IN /\ failed <= failLeft
          /\ failLeft' = failLeft - failed
          /\ fileLines' = Append(fileLines,
                              ReportLines(WithFreshOutbound(match, freshOutboundMap),
                                          FetchXmlDetailsSafe(resp),
                                          inboundStatus,
                                          processResults[doc]))
  /\ idx' = IF idx < Len(sortedMatches) THEN idx + 1 ELSE 0
  /\ pc' = IF idx < Len(sortedMatches) THEN "saveMatch" ELSE "saveFile"
  /\ UNCHANGED <<rsStatuses, rsLatest, unitVars, tz, remote, envLeft, exitCode, fatal,
                 inboundDocs, outboundDocs, outboundMap, matches, analysis,
                 nov28AndLater, beforeNov28, phase, sendList, successCount,
                 processResults, posts, waited, lastXml, lastResp,
                 sortedMatches, freshOutboundMap, console, saved>>

\* saveReportToFile: fileWriter.save(); generateReport and main return.
SaveFile ==
  /\ pc = "saveFile"
  /\ called' = called \cup {"writeFileSync"}
  /\ \/ /\ Throw("writeFileSync")
        /\ UNCHANGED saved
     \/ /\ saved' = TRUE
        /\ pc' = "return"
        /\ UNCHANGED fatal
  /\ UNCHANGED <<rsStatuses, rsLatest, unitVars, tz, failLeft, remote, envLeft, exitCode,
                 runVars, sortedMatches, freshOutboundMap, console, fileLines>>

\* Another client of the API (the single-document sender of
\* temp/state3.js) posts 'rejected' on a matched document the remote still
\* lets change, while the run is between its analysis and its last wait.
ExternalStatus ==
  /\ envLeft > 0
  /\ pc \in {"analyze", "split", "partition", "send", "wait"}
  /\ \E d \in {matches[i].inbound.id : i \in 1..Len(matches)} :
       /\ RemoteAllows(remote[d])
       /\ remote' = [remote EXCEPT
                       ![d] = Append(@, Status(REJECTED, NextCreatedAt(@)))]
  /\ envLeft' = envLeft - 1
  /\ UNCHANGED <<rsStatuses, rsLatest, unitVars, tz, failLeft, pc, exitCode, fatal, called,
                 runVars, reportVars>>

Next ==
  \/ CreateHttpClient
  \/ Authenticate
  \/ FetchInbound(RunInbound)
  \/ FetchOutboundAndMatch(RunOutbound)
  \/ AnalyzeNext
  \/ SplitNext(RunXml)
  \/ BeginPartition
  \/ SendNext
  \/ HandleWaitTime
  \/ PrintBegin(ReportXml, RunOutbound)
  \/ PrintMatchNext(ReportXml)
  \/ SaveBegin(ReportXml, RunOutbound)
  \/ SaveMatchNext(ReportXml)
  \/ SaveFile
  \/ ExternalStatus
  \/ MainCatch
  \/ MainReturn

Spec == Init /\ [][Next]_vars

\* ------------------------------------------- the matching on its own
\* The run up to the match list, with up to MaxDocs documents on each side
\* and transmission ids up to MaxTid.
MatchTids == {NoTid} \cup 1..MaxTid
MatchInbound == InboundLists(MaxDocs, MatchTids, {cutoffDate - 1})
MatchOutbound == OutboundLists(MaxDocs, MatchTids)

InitQuiet(tzs) ==
  /\ InitIn(tzs)
  /\ remote = [d \in DocIds |-> <<>>]

InitMatch == InitQuiet({0})

NextMatch ==
  \/ CreateHttpClient
  \/ Authenticate
  \/ FetchInbound(MatchInbound)
  \/ FetchOutboundAndMatch(MatchOutbound)
  \/ MainCatch
  \/ MainReturn

SpecMatch == InitMatch /\ [][NextMatch]_vars

\* ------------------------------------------ the date split on its own
\* The run up to the two partitions, in each time zone, with createdAt
\* around the cutoff and issue dates around the cutoff day.
SplitCreatedAts == {cutoffDate - 2, cutoffDate - 1, cutoffDate}
SplitInbound == InboundLists(MaxIn, {1}, SplitCreatedAts)
SplitOutbound == OutboundLists(1, {1})
SplitXml ==
  [doc \in DocIds |->
     {XmlFailure, Xml("7", "note", NoDate)}
       \cup {Xml("7", "note", d) : d \in (CutoffDay - 1)..(CutoffDay + 1)}]

InitSplit == InitQuiet(TzOffsets)

NextSplit ==
  \/ CreateHttpClient
  \/ Authenticate
  \/ FetchInbound(SplitInbound)
  \/ FetchOutboundAndMatch(SplitOutbound)
  \/ AnalyzeNext
  \/ SplitNext(SplitXml)
  \/ MainCatch
  \/ MainReturn

SpecSplit == InitSplit /\ [][NextSplit]_vars

\* ------------------------------------------ the resolver on its own
StatusRecords ==
  [code : Codes, technicalStatus : TechStates, createdAt : 1..MaxTime]

ResolverInit ==
  /\ rsStatuses \in SeqsUpTo(StatusRecords, MaxLen)
  /\ rsLatest = NoResult
  /\ UnitIdle
  /\ Idle

CallGetLatestStatus ==
  /\ rsLatest = NoResult
  /\ rsLatest' = GetLatestStatus(rsStatuses)
  /\ UNCHANGED <<rsStatuses, unitVars, progVars>>

ResolverNext == CallGetLatestStatus

SpecResolver == ResolverInit /\ [][ResolverNext]_vars

\* ----------------------------------------------------------- properties
PostsOf(doc) == {j \in 1..Len(posts) : posts[j].documentId = doc}

\* C1: no status submission is issued for a document whose latest status
\* record is accepted or rejected at the moment of the submission.  The
\* run decides from the status list it fetched in its analysis step, so a
\* final status posted by another client after that is not seen.
NoSubmissionOnFinal ==
  \A j \in 1..Len(posts) : posts[j].latest \notin FinalStatuses

\* C2: getLatestStatus returns, for a non-empty list in any order, the code
\* and technicalStatus ('-' where the field is missing) of a record whose
\* createdAt is the maximum of the list, and the sentinel ('-', '-') for the
\* empty list.
LatestIsMaxCreatedAt ==
  rsLatest # NoResult =>
    IF rsStatuses = <<>>
    THEN rsLatest = [code |-> "-", technicalStatus |-> "-"]
    ELSE \E i \in 1..Len(rsStatuses) :
           /\ rsStatuses[i].createdAt = MaxCreatedAt(rsStatuses)
           /\ rsLatest.code = OrDash(rsStatuses[i].code)
           /\ rsLatest.technicalStatus = OrDash(rsStatuses[i].technicalStatus)

\* The latest record is neither first nor last of a three-record list.
LatestInMiddleWitness ==
  /\ rsLatest # NoResult
  /\ Len(rsStatuses) = 3
  /\ rsStatuses[2].createdAt > rsStatuses[1].createdAt
  /\ rsStatuses[2].createdAt > rsStatuses[3].createdAt
  /\ rsStatuses[2].code = REJECTED
  /\ rsStatuses[1].code = ACCEPTED
  /\ rsLatest.code = REJECTED

Matched == "fetchOutboundDocuments" \in called /\ fatal = "none"

\* C3: once the matching is done, the match list has a match with
\* transmission id t exactly when some fetched inbound document and some
\* fetched outbound document both carry t; a document without a
\* transmission id is in no match.
MatchIffBothSides ==
  Matched =>
    /\ \A t \in 1..MaxTid :
         (\E k \in 1..Len(matches) : matches[k].transmissionId = t)
           <=> /\ \E i \in 1..Len(inboundDocs) : inboundDocs[i].transmissionId = t
               /\ \E j \in 1..Len(outboundDocs) : outboundDocs[j].transmissionId = t
    /\ \A k \in 1..Len(matches) : matches[k].transmissionId # NoTid

\* Id 1 is on both sides, id 2 on the inbound side only, and both sides
\* have a document without id: the only matches are for id 1.
OneSidedIdWitness ==
  /\ Matched
  /\ \E i \in 1..Len(inboundDocs) : inboundDocs[i].transmissionId = 2
  /\ \E i \in 1..Len(inboundDocs) : inboundDocs[i].transmissionId = NoTid
  /\ \E j \in 1..Len(outboundDocs) : outboundDocs[j].transmissionId = NoTid
  /\ \A j \in 1..Len(outboundDocs) : outboundDocs[j].transmissionId # 2
  /\ Len(matches) = 1
  /\ matches[1].transmissionId = 1

\* The error sendStatus reports for a response that is not a created record.
ReportedError(resp) == IF resp.detail # Absent THEN resp.detail ELSE resp.message

\* C4: sendStatus never throws; the result of the submission made last has
\* the submitted code, success for a created record, and otherwise failure
\* with the first error detail of the response, or the error message when
\* the response has no detail.
SendStatusResult ==
  /\ fatal # "sendBusinessStatus"
  /\ lastResp # NoResp =>
       LET post == posts[Len(posts)]
           result == processResults[post.documentId]
       IN /\ result.statusCode = post.statusCode
          /\ lastResp.kind = "created" => result.success
          /\ lastResp.kind # "created" =>
               /\ ~result.success
               /\ result.error = ReportedError(lastResp)

\* A submission on a document that another client made final gets a 403
\* with 'Cannot transition', and the result holds that detail.
CannotTransitionWitness ==
  /\ lastResp.kind = "error"
  /\ lastResp.detail = "Cannot transition"
  /\ posts[Len(posts)].latest \in FinalStatuses
  /\ processResults[posts[Len(posts)].documentId].error = "Cannot transition"
  /\ ~processResults[posts[Len(posts)].documentId].success

\* C5: the failure of a per-document XML fetch or status fetch never ends
\* the run.  The status fetch of the analysis step is outside every try,
\* so its failure reaches the catch of main.
FetchFailureNeverFatal ==
  fatal \notin {"fetchDocumentXml", "fetchInboundBusinessStatuses"}

FailedPosts(doc) == {j \in PostsOf(doc) : ~posts[j].success}

\* The action line of a failed submission of `code`.
FailedAction(doc) ==
  <<[statusCode |-> posts[CHOOSE j \in FailedPosts(doc) : TRUE].statusCode,
     mark |-> "cross",
     error |-> processResults[doc].error]>>

ShowsFailures(lines) ==
  \A k \in 1..Len(lines) :
    FailedPosts(lines[k].inboundId) # {} =>
      lines[k].actions = FailedAction(lines[k].inboundId)

\* C6: a failed submission does not abort the run: no failure of a
\* submission reaches main, every document of the partition is submitted
\* before the wait, after both partitions every document that needed a
\* final status has been submitted, the failure is the stored result of
\* its document, a run that ends normally with matches has printed and
\* saved a section per match, and the section of the document, on the
\* console and in the file, shows the attempted code with the error.
FailedSubmissionShown ==
  /\ fatal # "sendBusinessStatus"
  /\ pc = "wait" =>
       \A i \in 1..Len(sendList) :
         \E j \in PostsOf(sendList[i].documentId) : posts[j].phase = phase
  /\ phase = 3 =>
       \A i \in 1..Len(analysis) :
         analysis[i].needsFinalStatus => PostsOf(analysis[i].documentId) # {}
  /\ \A j \in 1..Len(posts) :
       ~posts[j].success =>
         /\ ~processResults[posts[j].documentId].success
         /\ processResults[posts[j].documentId].statusCode = posts[j].statusCode
         /\ processResults[posts[j].documentId].error # Absent
  /\ (pc = "exited" /\ exitCode = 0 /\ matches # <<>>) =>
       /\ saved
       /\ Len(console) = Len(matches)
       /\ Len(fileLines) = Len(matches)
  /\ ShowsFailures(console)
  /\ ShowsFailures(fileLines)

\* The first submission of a run fails, the second succeeds, and the run
\* ends normally with the failure in the printed and the saved report.
FailureThenSuccessWitness ==
  /\ pc = "exited" /\ exitCode = 0 /\ saved
  /\ Len(posts) = 2
  /\ ~posts[1].success /\ posts[2].success
  /\ \E k \in 1..Len(console) :
       /\ console[k].inboundId = posts[1].documentId
       /\ console[k].actions = FailedAction(posts[1].documentId)
  /\ \E k \in 1..Len(fileLines) :
       /\ fileLines[k].inboundId = posts[1].documentId
       /\ fileLines[k].actions = FailedAction(posts[1].documentId)

Placed == Len(nov28AndLater) + Len(beforeNov28)

PlacedLater(match) ==
  \E i \in 1..Len(nov28AndLater) : nov28AndLater[i] = match

ExitCodeOneIffFatal ==
  /\ pc = "exited" => /\ exitCode \in {0, 1}
                      /\ exitCode = 1 <=> fatal # "none"
  /\ pc # "exited" => exitCode = -1

\* Authentication failed and the process has ended with 1.
AuthenticationFailedWitness ==
  /\ pc = "exited"
  /\ exitCode = 1
  /\ fatal = "authenticate"

\* A run with a failed submission and a recovered fetch failure in the
\* report has ended with 0.
SoftFailuresExitZeroWitness ==
  /\ pc = "exited"
  /\ exitCode = 0
  /\ \E j \in 1..Len(posts) : ~posts[j].success
  /\ failLeft < MaxFail

\* C9: with an empty inbound list nothing is fetched, submitted or written
\* afterwards; with no match nothing is submitted or written.
NothingAfterEmptyInbound ==
  /\ inboundDocs = <<>> =>
       /\ called \subseteq {"authenticate", "fetchInboundDocuments"}
       /\ posts = <<>>
       /\ ~saved
  /\ matches = <<>> =>
       /\ called \cap {"sendBusinessStatus", "writeFileSync"} = {}
       /\ posts = <<>>
       /\ ~saved

\* The inbound fetch returned no document and the run has ended.
EmptyInboundWitness ==
  /\ pc = "exited"
  /\ exitCode = 0
  /\ "fetchInboundDocuments" \in called
  /\ inboundDocs = <<>>

SubmittedIn(p) == {j \in 1..Len(posts) : posts[j].phase = p}

\* C10 as stated: after the submissions of a partition the run waits
\* finalStatusWaitTime whatever their outcome.
WaitsWhateverOutcome ==
  \A p \in 1..2 :
    (phase > p /\ SubmittedIn(p) # {}) => waited[p] = finalStatusWaitTime

\* C10: after the submissions of a partition the run waits
\* finalStatusWaitTime when at least one of them succeeded, and does not
\* wait when all of them failed or none was made.
WaitsIffSomeSuccess ==
  \A p \in 1..2 :
    phase > p =>
      waited[p] = IF \E j \in SubmittedIn(p) : posts[j].success
                  THEN finalStatusWaitTime ELSE 0

\* A partition with a failed and a successful submission was followed by
\* the full wait.
MixedOutcomeWaitWitness ==
  \E p \in 1..2 :
    /\ phase > p
    /\ \E j \in SubmittedIn(p) : posts[j].success
    /\ \E j \in SubmittedIn(p) : ~posts[j].success
    /\ waited[p] = finalStatusWaitTime

\* C11: the sections written to the report file equal the sections printed
\* to the console, match by match and in the same order.  The save step
\* sorts and fetches again, so a fetch that fails or answers differently in
\* one of the two steps makes them differ.
FileEqualsConsole ==
  saved => fileLines = console

\* ------------------------------------------------ the sort on its own
\* sortMatchesByInvoiceNumber on every list of up to MaxDocs matches with
\* these invoice numbers.
InvoiceIds == {"5", "7", "10", " 7", "#12", "Error", "Niet gevonden"}

\* n matches: inbound documents 1..n, all matched with one outbound document.
MatchesOf(n) ==
  FindMatches(WithIds([i \in 1..n |-> [transmissionId |-> 1,
                                       createdAt |-> cutoffDate - 1]]),
              BuildOutboundMap(WithOutIds(<<[transmissionId |-> 1]>>)))

SortInit ==
  /\ rsStatuses = <<>> /\ rsLatest = NoResult
  /\ PermuteIdle /\ AnalyzeIdle /\ PairIdle /\ SenderIdle /\ IOIdle
  /\ \E n \in 0..MaxDocs :
       \E numbers \in [1..n -> InvoiceIds] :
         sortCall = [done |-> FALSE, matches |-> MatchesOf(n),
                     numbers |-> numbers, result |-> <<>>]
  /\ Idle

CallSortMatchesByInvoiceNumber ==
  /\ ~sortCall.done
  /\ sortCall' = [sortCall EXCEPT
                    !.done = TRUE,
                    !.result = SortMatchesByInvoiceNumber(sortCall.matches,
                                                          sortCall.numbers)]
  /\ UNCHANGED <<rsStatuses, rsLatest, rsPermuted, rsCalls, rsAnalysis,
                 pairCall, sender, io, progVars>>

SortNext == CallSortMatchesByInvoiceNumber

SpecSort == SortInit /\ [][SortNext]_vars

\* The invoice number the sort had for a match of its result.
SortNumberOf(match) == sortCall.numbers[match.inbound.id]

\* C12: the result of sortMatchesByInvoiceNumber is a permutation of its
\* input in which every two matches are in order: numerically when both
\* invoice numbers parse as integers, else by localeCompare.  The two
\* orders do not agree, so some lists have no such arrangement.
SortedByInvoiceNumber ==
  sortCall.done =>
    /\ Len(sortCall.result) = Len(sortCall.matches)
    /\ \A i \in 1..Len(sortCall.matches) :
         \E k \in 1..Len(sortCall.result) : sortCall.result[k] = sortCall.matches[i]
    /\ \A i, j \in 1..Len(sortCall.result) :
         i < j =>
           LET a == SortNumberOf(sortCall.result[i])
               b == SortNumberOf(sortCall.result[j])
           IN IF ParseInt(a) # NaN /\ ParseInt(b) # NaN
              THEN ParseInt(a) <= ParseInt(b)
              ELSE LocaleCompare(a, b) <= 0

\* ------------------------------------------- the requests of a run
\* The run as the sequence of its awaits: what each await has issued and
\* what of it has not completed yet.  A run has n matches (inbound
\* documents 1..n) and submits for the documents of `sends`; the loops of
\* the report take the matches in the order of the sort, which is that of
\* the documents here.
Request(call, doc) == [call |-> call, doc |-> doc]

\* A slip that fetches status and XML of a match together in the print loop.
RequestsAtPrintTogether(step, i, n, sends) ==
  CASE step = "authenticate" -> {Request("authenticate", 0)}
    [] step = "fetchInbound" -> {Request("fetchInboundDocuments", 0)}
    [] step \in {"fetchOutbound", "printMap", "saveMap"} ->
         {Request("fetchOutboundDocuments", 0)}
    [] step = "analyze" -> {Request("fetchInboundBusinessStatuses", i)}
    [] step = "split" -> {Request("fetchDocumentXml", i)}
    [] step = "send" -> {Request("sendBusinessStatus", sends[i])}
    [] step \in {"printSort", "saveSort"} ->
         {Request("fetchDocumentXml", d) : d \in 1..n}
    [] step \in {"printStatus", "saveMatch"} ->
         {Request("fetchDocumentXml", i), Request("fetchInboundBusinessStatuses", i)}
    [] step = "printXml" -> {Request("fetchDocumentXml", i)}
    [] OTHER -> {}

\* The requests an await of the run issues:
\*   one for authenticate, each list fetch, each analyzeDocument, each
\*   fetchXmlDetailsSafe of splitByDate and each sendStatus;
\*   sortMatchesByInvoiceNumber: Promise.all over all matches;
\*   printFinalResults: the status fetch, and then printMatch, whose
\*   Promise.all holds the XML fetch and an already resolved promise;
\*   saveReportToFile: Promise.all of the XML and the status fetch.
RequestsAt(step, i, n, sends) ==
  CASE step = "authenticate" -> {Request("authenticate", 0)}
    [] step = "fetchInbound" -> {Request("fetchInboundDocuments", 0)}
    [] step \in {"fetchOutbound", "printMap", "saveMap"} ->
         {Request("fetchOutboundDocuments", 0)}
    [] step = "analyze" -> {Request("fetchInboundBusinessStatuses", i)}
    [] step = "split" -> {Request("fetchDocumentXml", i)}
    [] step = "send" -> {Request("sendBusinessStatus", sends[i])}
    [] step \in {"printSort", "saveSort"} ->
         {Request("fetchDocumentXml", d) : d \in 1..n}
    [] step = "printStatus" -> {Request("fetchInboundBusinessStatuses", i)}
    [] step = "printXml" -> {Request("fetchDocumentXml", i)}
    [] step = "saveMatch" ->
         {Request("fetchDocumentXml", i), Request("fetchInboundBusinessStatuses", i)}
    [] OTHER -> {}

\* The await that follows the await `step` (turn i of its loop) once all
\* its requests have completed.
StepAfter(step, i, n, sends, inbound) ==
  CASE step = "authenticate" -> [step |-> "fetchInbound", idx |-> 0]
    [] step = "fetchInbound" ->
         IF inbound THEN [step |-> "fetchOutbound", idx |-> 0]
         ELSE [step |-> "done", idx |-> 0]
    [] step = "fetchOutbound" ->
         IF n > 0 THEN [step |-> "analyze", idx |-> 1]
         ELSE [step |-> "done", idx |-> 0]
    [] step = "analyze" ->
         IF i < n THEN [step |-> "analyze", idx |-> i + 1]
         ELSE [step |-> "split", idx |-> 1]
    [] step = "split" ->
         IF i < n THEN [step |-> "split", idx |-> i + 1]
         ELSE IF Len(sends) > 0 THEN [step |-> "send", idx |-> 1]
         ELSE [step |-> "printSort", idx |-> 0]
    [] step = "send" ->
         IF i < Len(sends) THEN [step |-> "send", idx |-> i + 1]
         ELSE [step |-> "printSort", idx |-> 0]
    [] step = "printSort" -> [step |-> "printMap", idx |-> 0]
    [] step = "printMap" -> [step |-> "printStatus", idx |-> 1]
    [] step = "printStatus" -> [step |-> "printXml", idx |-> i]
    [] step = "printXml" ->
         IF i < n THEN [step |-> "printStatus", idx |-> i + 1]
         ELSE [step |-> "saveSort", idx |-> 0]
    [] step = "saveSort" -> [step |-> "saveMap", idx |-> 0]
    [] step = "saveMap" -> [step |-> "saveMatch", idx |-> 1]
    [] step = "saveMatch" ->
         IF i < n THEN [step |-> "saveMatch", idx |-> i + 1]
         ELSE [step |-> "done", idx |-> 0]
    [] OTHER -> [step |-> "done", idx |-> 0]

\* The calls whose failure nothing catches before main.
Uncaught(step) ==
  step \in {"authenticate", "fetchInbound", "fetchOutbound", "analyze",
            "printMap", "saveMap"}

\* The increasing sequences of documents out of 1..n.
SendLists(n) ==
  {s \in SeqsUpTo(1..n, n) : \A i, j \in 1..Len(s) : i < j => s[i] < s[j]}

IOInit ==
  /\ rsStatuses = <<>> /\ rsLatest = NoResult
  /\ PermuteIdle /\ AnalyzeIdle /\ SortIdle /\ PairIdle /\ SenderIdle
  /\ \E n \in 0..MaxDocs, inbound \in BOOLEAN :
       \E sends \in SendLists(n) :
         /\ n > 0 => inbound
         /\ io = [step |-> "authenticate", idx |-> 0, n |-> n, sends |-> sends,
                  inbound |-> inbound, inflight |-> {}]
  /\ Idle

\* An await issues its requests.
IOIssue ==
  /\ io.step \notin {"done", "failed"}
  /\ io.inflight = {}
  /\ io' = [io EXCEPT !.inflight = RequestsAt(io.step, io.idx, io.n, io.sends)]
  /\ UNCHANGED <<rsStatuses, rsLatest, rsPermuted, rsCalls, rsAnalysis,
                 sortCall, pairCall, sender, progVars>>

\* A request completes, with a response or with a failure that is caught;
\* the run goes on when it was the last one awaited.
IOComplete ==
  /\ \E r \in io.inflight :
       LET next == StepAfter(io.step, io.idx, io.n, io.sends, io.inbound)
       IN io' = IF io.inflight = {r}
                THEN [io EXCEPT !.inflight = {}, !.step = next.step,
                                !.idx = next.idx]
                ELSE [io EXCEPT !.inflight = @ \ {r}]
  /\ UNCHANGED <<rsStatuses, rsLatest, rsPermuted, rsCalls, rsAnalysis,
                 sortCall, pairCall, sender, progVars>>

\* A request fails and nothing catches the failure: the run ends.
IOFail ==
  /\ Uncaught(io.step)
  /\ io.inflight # {}
  /\ io' = [io EXCEPT !.inflight = {}, !.step = "failed"]
  /\ UNCHANGED <<rsStatuses, rsLatest, rsPermuted, rsCalls, rsAnalysis,
                 sortCall, pairCall, sender, progVars>>

IONext == IOIssue \/ IOComplete \/ IOFail

SpecIO == IOInit /\ [][IONext]_vars

InFlight == IF io = NoCall THEN {} ELSE io.inflight

\* C13 as stated: at most two requests are in flight, and two only for the
\* XML fetch and the status fetch of one match in the print or save path.
AtMostTwoInFlight ==
  /\ Cardinality(InFlight) <= 2
  /\ Cardinality(InFlight) = 2 =>
       /\ io.step \in {"printStatus", "printXml", "saveMatch"}
       /\ \A r \in InFlight : r.doc = io.idx
       /\ {r.call : r \in InFlight}
            = {"fetchDocumentXml", "fetchInboundBusinessStatuses"}

\* C13: requests are in flight one at a time, except that each sort (one in
\* the print step, one in the save step) has the XML fetches of all matches
\* in flight together, and that the save loop has the XML fetch and the
\* status fetch of one match in flight together; in the print loop the
\* status fetch of a match has completed before its XML fetch is issued.
InFlightBySortAndSave ==
  Cardinality(InFlight) > 1 =>
    \/ /\ io.step \in {"printSort", "saveSort"}
       /\ InFlight \subseteq {Request("fetchDocumentXml", d) : d \in 1..io.n}
    \/ /\ io.step = "saveMatch"
       /\ InFlight = {Request("fetchDocumentXml", io.idx),
                      Request("fetchInboundBusinessStatuses", io.idx)}

\* The sort of a run with three matches has three XML fetches in flight.
ThreeInFlightWitness ==
  /\ io # NoCall
  /\ io.step = "printSort"
  /\ Cardinality(io.inflight) = 3

\* ------------------------------------- analyzeDocument on its own
\* analyzeDocument on every fetched list of up to MaxLen status records.
AnalyzeInit ==
  /\ rsStatuses \in SeqsUpTo(StatusRecords, MaxLen)
  /\ rsLatest = NoResult
  /\ PermuteIdle /\ AnalyzeIdle /\ SortIdle /\ PairIdle /\ SenderIdle /\ IOIdle
  /\ Idle

CallAnalyzeDocument ==
  /\ rsAnalysis = NoCall
  /\ rsAnalysis' = AnalyzeDocument(1, rsStatuses)
  /\ UNCHANGED <<rsStatuses, rsLatest, rsPermuted, rsCalls,
                 sortCall, pairCall, sender, io, progVars>>

AnalyzeCallNext == CallAnalyzeDocument

SpecAnalyze == AnalyzeInit /\ [][AnalyzeCallNext]_vars

\* C14: analyzeDocument returns needsFinalStatus = true exactly when no
\* record of the fetched list has code accepted or rejected, whichever
\* record is the latest, and isComplete and hasFinalStatus are its negation.
NeedsFinalIffNoFinalRecord ==
  rsAnalysis # NoCall =>
    /\ rsAnalysis.needsFinalStatus
         <=> \A i \in 1..Len(rsStatuses) : rsStatuses[i].code \notin FinalStatuses
    /\ rsAnalysis.isComplete = ~rsAnalysis.needsFinalStatus
    /\ rsAnalysis.hasFinalStatus = ~rsAnalysis.needsFinalStatus

\* The list has an accepted record that is older than its latest record,
\* which is not final, and no final status is needed.
OlderFinalRecordWitness ==
  /\ rsAnalysis # NoCall
  /\ Len(rsStatuses) = 2
  /\ rsStatuses[1].code = "received" /\ rsStatuses[1].createdAt = 2
  /\ rsStatuses[2].code = ACCEPTED /\ rsStatuses[2].createdAt = 1
  /\ ~rsAnalysis.needsFinalStatus
  /\ rsAnalysis.isComplete

\* One inbound and one outbound document share a transmission id.
OnePair ==
  /\ Len(inboundDocs) = 1 /\ Len(outboundDocs) = 1
  /\ inboundDocs[1].transmissionId # NoTid
  /\ inboundDocs[1].transmissionId = outboundDocs[1].transmissionId

\* The invoice date splitByDate got last is before the cutoff day: the
\* issue date of the XML, or createdAt when the XML gave none.
DatedBeforeCutoff ==
  /\ lastXml # NoXml
  /\ IF lastXml.ok /\ lastXml.IssueDate # NoDate
     THEN lastXml.IssueDate < CutoffDay
     ELSE inboundDocs[1].createdAt + tz < cutoffDate

\* The scenario, once split and analysis are done: the one match is before
\* the cutoff and the analysis fetched an empty status list for it.
OnePairBeforeCutoffNoStatus ==
  /\ OnePair
  /\ Len(matches) = 1
  /\ beforeNov28 = matches
  /\ Len(analysis) = 1 /\ analysis[1].statuses = <<>>

\* The section of a report for the one match shows the submitted code in
\* its action line, and, when the submission succeeded and no fetch of the
\* report steps failed, the submitted code as the business state and the
\* technical status returned for it as the technical state.
ShowsSubmission(lines) ==
  \A k \in 1..Len(lines) :
    /\ Len(lines[k].actions) = 1
    /\ lines[k].actions[1].statusCode = posts[1].statusCode
    /\ (posts[1].success /\ failLeft = MaxFail) =>
         /\ lines[k].code = posts[1].statusCode
         /\ lines[k].technicalStatus = processResults[posts[1].documentId].technicalStatus
         /\ lines[k].actions[1].mark \in {"thumbsUp", "thumbsDown"}

PermutationsOf(s) ==
  {[i \in 1..Len(s) |-> s[p[i]]] :
     p \in {q \in [1..Len(s) -> 1..Len(s)] :
              \A i, j \in 1..Len(s) : i # j => q[i] # q[j]}}

PermuteInit ==
  /\ rsStatuses \in SeqsUpTo(StatusRecords, MaxLen)
  /\ rsPermuted \in PermutationsOf(rsStatuses)
  /\ rsCalls = NoCall
  /\ rsLatest = NoResult
  /\ AnalyzeIdle /\ SortIdle /\ PairIdle /\ SenderIdle /\ IOIdle
  /\ Idle

\* getLatestStatus, hasStatus and hasAnyStatus called with a list and with
\* a permutation of it.  getLatestStatus sorts a copy ([...statuses]) and
\* some() only reads, so the caller's list is what it was.
CallResolverOnBoth ==
  /\ rsCalls = NoCall
  /\ \E statusCode \in Codes \ {Absent}, statusCodes \in {FinalStatuses, {"received"}} :
       rsCalls' = [done |-> TRUE,
                   statusCode |-> statusCode,
                   statusCodes |-> statusCodes,
                   latest |-> GetLatestStatus(rsStatuses),
                   latestPermuted |-> GetLatestStatus(rsPermuted),
                   has |-> HasStatus(rsStatuses, statusCode),
                   hasPermuted |-> HasStatus(rsPermuted, statusCode),
                   hasAny |-> HasAnyStatus(rsStatuses, statusCodes),
                   hasAnyPermuted |-> HasAnyStatus(rsPermuted, statusCodes),
                   statusesAfter |-> rsStatuses]
  /\ UNCHANGED <<rsStatuses, rsLatest, rsPermuted, rsAnalysis,
                 sortCall, pairCall, sender, io, progVars>>

PermuteNext == CallResolverOnBoth

SpecPermute == PermuteInit /\ [][PermuteNext]_vars

\* C16: getLatestStatus, hasStatus and hasAnyStatus return the same result
\* for a status list and for every permutation of it, lists in which two
\* records share the greatest createdAt but differ in code included, and
\* leave the input list as it was.
ResolverOrderIndependent ==
  rsCalls # NoCall =>
    /\ rsCalls.latest = rsCalls.latestPermuted
    /\ rsCalls.has = rsCalls.hasPermuted
    /\ rsCalls.hasAny = rsCalls.hasAnyPermuted
    /\ rsCalls.statusesAfter = rsStatuses

\* The part of C16 that the code keeps: hasStatus and hasAnyStatus do not
\* depend on the order, the input list is unchanged, and getLatestStatus
\* does not depend on the order when one record alone has the greatest
\* createdAt or all records with the greatest createdAt agree.
ResolverOrderIndependentButTies ==
  rsCalls # NoCall =>
    /\ rsCalls.has = rsCalls.hasPermuted
    /\ rsCalls.hasAny = rsCalls.hasAnyPermuted
    /\ rsCalls.statusesAfter = rsStatuses
    /\ (\A i, j \in 1..Len(rsStatuses) :
          (rsStatuses[i].createdAt = MaxCreatedAt(rsStatuses)
             /\ rsStatuses[j].createdAt = MaxCreatedAt(rsStatuses))
            => /\ rsStatuses[i].code = rsStatuses[j].code
               /\ rsStatuses[i].technicalStatus = rsStatuses[j].technicalStatus)
         => rsCalls.latest = rsCalls.latestPermuted

\* The position of the last fetched outbound document with transmission
\* id t; 0 when there is none.
LastOutboundWith(t) ==
  LET at == {j \in 1..Len(outboundDocs) : outboundDocs[j].transmissionId = t}
  IN IF at = {} THEN 0 ELSE CHOOSE j \in at : \A k \in at : k <= j

\* C17: when several fetched outbound documents carry the same transmission
\* id, the outbound index keeps the last of them in fetch order, and every
\* match for that id pairs its inbound document with that last outbound
\* document.
LastOutboundWins ==
  Matched =>
    /\ \A t \in DOMAIN outboundMap :
         /\ LastOutboundWith(t) # 0
         /\ outboundMap[t] = outboundDocs[LastOutboundWith(t)]
    /\ \A k \in 1..Len(matches) :
         /\ LastOutboundWith(matches[k].transmissionId) # 0
         /\ matches[k].outbound
              = outboundDocs[LastOutboundWith(matches[k].transmissionId)]

\* Transmission id 1 is on the first and on the last of three outbound
\* documents and on two inbound documents: both matches hold the third
\* outbound document.
DuplicateOutboundWitness ==
  /\ Matched
  /\ Len(outboundDocs) = 3
  /\ outboundDocs[1].transmissionId = 1
  /\ outboundDocs[2].transmissionId = 2
  /\ outboundDocs[3].transmissionId = 1
  /\ Len(matches) = 2
  /\ matches[1].inbound # matches[2].inbound
  /\ \A k \in 1..2 : /\ matches[k].transmissionId = 1
                     /\ matches[k].outbound = outboundDocs[3]
                     /\ matches[k].outbound # outboundDocs[1]

\* --------------------------------- the two pairings on the same lists
\* state.js, main: the outbound documents sorted newest first (a stable
\* sort) and cut to the first LatestCount.
LatestCount == 10
Latest10Outbound(outDocs) ==
  LET sorted == SortByCreatedAtDesc(outDocs)
  IN SubSeq(sorted, 1, IF Len(sorted) < LatestCount THEN Len(sorted) ELSE LatestCount)

NoInbound == [id |-> 0, transmissionId |-> NoTid, createdAt |-> 0]

\* A slip that takes the last inbound document with the id.
FindInboundLast(inDocs, transId) ==
  LET at == {i \in 1..Len(inDocs) : inDocs[i].transmissionId = transId}
  IN IF at = {} THEN NoInbound
     ELSE inDocs[CHOOSE i \in at : \A j \in at : j <= i]

\* state.js, main: inboundDocs.find(inDoc => inDoc.attributes.transmissionId
\* === transId): the first inbound document with an equal transmissionId
\* (two missing ids are equal), or none.
FindInbound(inDocs, transId) ==
  LET at == {i \in 1..Len(inDocs) : inDocs[i].transmissionId = transId}
  IN IF at = {} THEN NoInbound
     ELSE inDocs[CHOOSE i \in at : \A j \in at : i <= j]

\* state.js, main: the loop over latest10Outbound; a match is printed for
\* every outbound document for which find returned a document.
RECURSIVE PrintedMatches(_, _)
PrintedMatches(inDocs, latest) ==
  IF latest = <<>> THEN <<>>
  ELSE LET outDoc == Head(latest)
           match == FindInbound(inDocs, outDoc.transmissionId)
       IN (IF match # NoInbound
           THEN <<[outbound |-> outDoc, inbound |-> match,
                   transmissionId |-> outDoc.transmissionId]>>
           ELSE <<>>)
          \o PrintedMatches(inDocs, Tail(latest))

PairOutbound ==
  {[i \in 1..Len(l) |-> [id |-> i, transmissionId |-> l[i].transmissionId,
                         createdAt |-> l[i].createdAt]] :
     l \in SeqsUpTo([transmissionId : MatchTids, createdAt : 1..MaxTime], MaxDocs)}

PairInit ==
  /\ rsStatuses = <<>> /\ rsLatest = NoResult
  /\ PermuteIdle /\ AnalyzeIdle /\ SortIdle /\ SenderIdle /\ IOIdle
  /\ \E inDocs \in MatchInbound, outDocs \in PairOutbound :
       pairCall = [done |-> FALSE, inboundDocs |-> inDocs, outboundDocs |-> outDocs,
                   matches |-> <<>>, printed |-> <<>>]
  /\ Idle

\* The same fetched lists given to the matching of the report generator
\* (buildOutboundMap, findMatches) and to the loop of state.js.
CallBothPairings ==
  /\ ~pairCall.done
  /\ pairCall' = [pairCall EXCEPT
                    !.done = TRUE,
                    !.matches = FindMatches(pairCall.inboundDocs,
                                            BuildOutboundMap(pairCall.outboundDocs)),
                    !.printed = PrintedMatches(pairCall.inboundDocs,
                                               Latest10Outbound(pairCall.outboundDocs))]
  /\ UNCHANGED <<rsStatuses, rsLatest, rsPermuted, rsCalls, rsAnalysis,
                 sortCall, sender, io, progVars>>

PairNext == CallBothPairings

SpecPair == PairInit /\ [][PairNext]_vars

\* The positions of the documents of a list with transmission id t.
PositionsWith(docs, t) == {i \in 1..Len(docs) : docs[i].transmissionId = t}
FirstWith(docs, t) ==
  docs[CHOOSE i \in PositionsWith(docs, t) : \A j \in PositionsWith(docs, t) : i <= j]
LastWith(docs, t) ==
  docs[CHOOSE i \in PositionsWith(docs, t) : \A j \in PositionsWith(docs, t) : j <= i]

\* C18 as stated: with duplicates of a transmission id the pairing formed
\* for the id uses the first such document in fetch order, on either side
\* and in either program, and there is one pairing for every duplicate.
FirstDuplicateWins ==
  pairCall.done =>
    /\ \A k \in 1..Len(pairCall.matches) :
         LET m == pairCall.matches[k]
         IN /\ PositionsWith(pairCall.outboundDocs, m.transmissionId) # {}
            /\ m.outbound = FirstWith(pairCall.outboundDocs, m.transmissionId)
    /\ \A k \in 1..Len(pairCall.printed) :
         LET m == pairCall.printed[k]
         IN /\ PositionsWith(pairCall.inboundDocs, m.transmissionId) # {}
            /\ m.inbound = FirstWith(pairCall.inboundDocs, m.transmissionId)

\* C18 as the code has it.  The report generator forms one match for every
\* inbound document whose transmission id is present and carried by some
\* outbound document, in fetch order, each with the LAST outbound document
\* with the id: inbound duplicates are not collapsed, outbound duplicates
\* are replaced by the last.  state.js forms one pairing for every outbound
\* document whose transmission id (a missing one too) is carried by some
\* inbound document, each with the FIRST inbound document with the id.
PairingPerProgram ==
  pairCall.done =>
    LET inDocs == pairCall.inboundDocs
        outDocs == pairCall.outboundDocs
        paired == SelectSeq(inDocs,
                    LAMBDA d : d.transmissionId # NoTid
                               /\ PositionsWith(outDocs, d.transmissionId) # {})
        printedFor == SelectSeq(Latest10Outbound(outDocs),
                        LAMBDA d : PositionsWith(inDocs, d.transmissionId) # {})
    IN /\ Len(pairCall.matches) = Len(paired)
       /\ \A k \in 1..Len(paired) :
            /\ pairCall.matches[k].inbound = paired[k]
            /\ pairCall.matches[k].outbound = LastWith(outDocs, paired[k].transmissionId)
       /\ Len(pairCall.printed) = Len(printedFor)
       /\ \A k \in 1..Len(printedFor) :
            /\ pairCall.printed[k].outbound = printedFor[k]
            /\ pairCall.printed[k].inbound = FirstWith(inDocs, printedFor[k].transmissionId)

\* Transmission id 1 is on two inbound and on two outbound documents: the
\* report generator has two matches, both with the second outbound
\* document; state.js has two pairings, both with the first inbound one.
DuplicatesOnBothSidesWitness ==
  /\ pairCall.done
  /\ Len(pairCall.inboundDocs) = 2 /\ Len(pairCall.outboundDocs) = 2
  /\ \A i \in 1..2 : /\ pairCall.inboundDocs[i].transmissionId = 1
                     /\ pairCall.outboundDocs[i].transmissionId = 1
  /\ Len(pairCall.matches) = 2 /\ Len(pairCall.printed) = 2
  /\ \A k \in 1..2 : /\ pairCall.matches[k].inbound = pairCall.inboundDocs[k]
                     /\ pairCall.matches[k].outbound = pairCall.outboundDocs[2]
                     /\ pairCall.printed[k].inbound = pairCall.inboundDocs[1]
  /\ pairCall.printed[1].outbound # pairCall.printed[2].outbound

\* C19: each matched inbound document receives at most one status
\* submission in a run, whatever its outcome, and only when its analysis
\* in this run reported needsFinalStatus; no document is submitted in both
\* date partitions.
AtMostOneSubmissionPerDocument ==
  /\ \A i, j \in 1..Len(posts) :
       posts[i].documentId = posts[j].documentId => i = j
  /\ \A j \in 1..Len(posts) :
       /\ \E k \in 1..Len(matches) : matches[k].inbound.id = posts[j].documentId
       /\ \E k \in 1..Len(analysis) :
            /\ analysis[k].documentId = posts[j].documentId
            /\ analysis[k].needsFinalStatus
  /\ \A d \in DocIds :
       ~(\E i \in SubmittedIn(1) : posts[i].documentId = d)
         \/ ~(\E j \in SubmittedIn(2) : posts[j].documentId = d)

\* The run has ended after two submissions, one in each partition: the
\* first failed and was not repeated, the second went to another document.
FailedOnceNotRepeatedWitness ==
  /\ pc = "exited"
  /\ Len(posts) = 2
  /\ posts[1].phase = 1 /\ ~posts[1].success
  /\ posts[2].phase = 2 /\ posts[2].success
  /\ posts[1].documentId # posts[2].documentId

\* -------------------------------- the single-document rejected sender
\* state3.js, main.  sender holds the position of main, the status list of
\* the document at the remote, the list main fetched, the codes it posted,
\* the response to its POST and the exit code of the process (-1 while it
\* runs).
SenderStart(statuses) ==
  [done |-> FALSE, pc |-> "authenticate", remote |-> statuses,
   envLeft |-> MaxEnv, fetched |-> FALSE, currentStatuses |-> <<>>,
   posts |-> <<>>, lastResp |-> NoResp, exitCode |-> -1]

\* process.exit(code), and the end of main without one (code 0).
ProcessExit(s, code) == [s EXCEPT !.done = TRUE, !.pc = "exited", !.exitCode = code]

\* main: catch (error) { ...; process.exit(1) }
SenderCatch(s) == ProcessExit(s, 1)

\* A slip that never finds a final status.
AlreadyFinalNever(currentStatuses) == FALSE

\* main: the list is not empty and the first record of its copy sorted
\* newest first has code accepted or rejected.
AlreadyFinal(currentStatuses) ==
  /\ Len(currentStatuses) > 0
  /\ SortByCreatedAtDesc(currentStatuses)[1].code \in {ACCEPTED, REJECTED}

RejectedInit ==
  /\ rsStatuses = <<>> /\ rsLatest = NoResult
  /\ PermuteIdle /\ AnalyzeIdle /\ SortIdle /\ PairIdle /\ IOIdle
  /\ \E statuses \in SeqsUpTo(StatusRecords, MaxLen) : sender = SenderStart(statuses)
  /\ Idle

SenderUnchanged ==
  UNCHANGED <<rsStatuses, rsLatest, rsPermuted, rsCalls, rsAnalysis,
              sortCall, pairCall, io, progVars>>

\* main: createHttpClient and authenticate; either may throw.
RejectedAuthenticate ==
  /\ sender.pc = "authenticate"
  /\ \/ sender' = [sender EXCEPT !.pc = "fetch"]
     \/ sender' = SenderCatch(sender)
  /\ SenderUnchanged

\* main: fetchInboundBusinessStatuses; a failed request is caught.
RejectedFetchStatuses ==
  /\ sender.pc = "fetch"
  /\ \/ sender' = [sender EXCEPT !.pc = "check", !.fetched = TRUE,
                                 !.currentStatuses = sender.remote]
     \/ sender' = SenderCatch(sender)
  /\ SenderUnchanged

\* main: the test of the latest status; process.exit(1) on a final one.
RejectedCheckLatest ==
  /\ sender.pc = "check"
  /\ sender' = IF AlreadyFinal(sender.currentStatuses)
               THEN ProcessExit(sender, 1)
               ELSE [sender EXCEPT !.pc = "send"]
  /\ SenderUnchanged

\* Another client gives the document a final status after the fetch.
RejectedExternalStatus ==
  /\ sender.pc \in {"check", "send"}
  /\ sender.envLeft > 0
  /\ RemoteAllows(sender.remote)
  /\ \E code \in FinalStatuses :
       sender' = [sender EXCEPT
                    !.envLeft = sender.envLeft - 1,
                    !.remote = Append(sender.remote,
                                      Status(code, NextCreatedAt(sender.remote)))]
  /\ SenderUnchanged

\* main: sendBusinessStatus(documentId, 'rejected') and the two lines that
\* read result.id and result.attributes; an error response and a body
\* without data (a TypeError) are caught; otherwise main ends.
RejectedSend ==
  /\ sender.pc = "send"
  /\ \E resp \in PostResponses(sender.remote) :
       LET sent == [sender EXCEPT
                      !.posts = Append(sender.posts, REJECTED),
                      !.lastResp = resp,
                      !.remote = RemoteAfterPost(sender.remote, REJECTED, resp)]
       IN sender' = IF resp.kind = "created" THEN ProcessExit(sent, 0)
                    ELSE SenderCatch(sent)
  /\ SenderUnchanged

RejectedNext ==
  \/ RejectedAuthenticate
  \/ RejectedFetchStatuses
  \/ RejectedCheckLatest
  \/ RejectedExternalStatus
  \/ RejectedSend

SpecRejected == RejectedInit /\ [][RejectedNext]_vars

\* The records of the fetched list with the greatest createdAt.
LatestFetched ==
  {i \in 1..Len(sender.currentStatuses) :
     sender.currentStatuses[i].createdAt = MaxCreatedAt(sender.currentStatuses)}

\* C20: the rejected sender of state3.js.  When the fetched list is not
\* empty and its latest record is accepted or rejected, the process exits
\* with code 1 and has issued no POST.  Otherwise it issues exactly one
\* POST, with code rejected, and every failure of that POST, 403 'Cannot
\* transition' included, ends the process with code 1.  (Of several
\* records with the greatest createdAt the code takes the first; the
\* property speaks of lists whose latest records are all final or all not.)
RejectedSenderContract ==
  LET cs == sender.currentStatuses
      allFinal == cs # <<>> /\ \A i \in LatestFetched : cs[i].code \in FinalStatuses
      noneFinal == cs = <<>> \/ \A i \in LatestFetched : cs[i].code \notin FinalStatuses
      decided == sender.fetched /\ sender.pc # "check"
  IN /\ \A j \in 1..Len(sender.posts) : sender.posts[j] = REJECTED
     /\ Len(sender.posts) <= 1
     /\ sender.posts # <<>> => sender.fetched
     /\ (decided /\ allFinal) =>
          /\ sender.pc = "exited" /\ sender.exitCode = 1
          /\ sender.posts = <<>>
     /\ (decided /\ noneFinal) =>
          /\ sender.pc \in {"send", "exited"}
          /\ sender.pc = "exited" => sender.posts = <<REJECTED>>
     /\ (sender.pc = "exited" /\ sender.posts # <<>>
           /\ sender.lastResp.kind # "created") => sender.exitCode = 1
     /\ sender.pc = "exited" =>
          /\ sender.exitCode \in {0, 1}
          /\ sender.exitCode = 0 =>
               sender.posts = <<REJECTED>> /\ sender.lastResp.kind = "created"

\* The fetched list ended with 'received'; the one POST was answered with
\* 'Cannot transition' and the process exited with code 1.
CannotTransitionExitWitness ==
  /\ sender.pc = "exited" /\ sender.exitCode = 1
  /\ Len(sender.currentStatuses) = 2
  /\ sender.currentStatuses[1].code = ACCEPTED
  /\ sender.currentStatuses[1].createdAt = 1
  /\ sender.currentStatuses[2].code = "received"
  /\ sender.currentStatuses[2].createdAt = 2
  /\ sender.posts = <<REJECTED>>
  /\ sender.lastResp.detail = "Cannot transition"

\* ------------------------------------------------- the run to its end
\* The run as the sequence of its awaits, with the two partitions, the
\* countdown loops and the number of requests issued.  A run has n matches
\* (inbound documents 1..n); `later` and `before` are the documents the
\* first and the second partition submit for.
MaxTotalMs == 4
MaxIntervalMs == 3

\* The arguments of a countdown: those of the run (finalStatusWaitTime and
\* the default intervalMs) and small positive ones.
CountdownInputs ==
  {<<finalStatusWaitTime, intervalMs>>} \cup ((1..MaxTotalMs) \X (1..MaxIntervalMs))

\* A slip that loops until remaining is exactly zero.
CountdownRunsUntilZero(remaining) == remaining # 0

\* countdown: the test of  while (remaining > 0)
CountdownRuns(remaining) == remaining > 0

\* The submissions of the partition the run is in.
TermSends(s) == IF s.phase = 1 THEN s.later ELSE s.before

\* generateReport: what follows the handling of partition s.phase.
TermAfterPartition(s) ==
  IF s.phase = 1 /\ Len(s.before) > 0
  THEN [step |-> "send", idx |-> 1, phase |-> 2]
  ELSE [step |-> "printSort", idx |-> 0, phase |-> 3]

\* The await that follows the await s.step (turn s.idx of its loop) once
\* all its requests have completed; handleWaitTime follows the submissions
\* of a partition.
TermAfter(s) ==
  CASE s.step = "split" /\ s.idx = s.n ->
         IF Len(s.later) > 0 THEN [step |-> "send", idx |-> 1, phase |-> 1]
         ELSE IF Len(s.before) > 0 THEN [step |-> "send", idx |-> 1, phase |-> 2]
         ELSE [step |-> "printSort", idx |-> 0, phase |-> 3]
    [] s.step = "send" ->
         IF s.idx < Len(TermSends(s))
         THEN [step |-> "send", idx |-> s.idx + 1, phase |-> s.phase]
         ELSE [step |-> "wait", idx |-> 0, phase |-> s.phase]
    [] s.step = "saveMatch" /\ s.idx = s.n ->
         [step |-> "saveFile", idx |-> 0, phase |-> s.phase]
    [] OTHER ->
         LET next == StepAfter(s.step, s.idx, s.n, <<>>, s.inbound)
         IN [step |-> next.step, idx |-> next.idx, phase |-> s.phase]

\* The pairs of disjoint submission lists of a run with n matches.
PartitionSends(n) ==
  {p \in SendLists(n) \X SendLists(n) :
     \A i \in 1..Len(p[1]), j \in 1..Len(p[2]) : p[1][i] # p[2][j]}

TermInit ==
  /\ rsStatuses = <<>> /\ rsLatest = NoResult
  /\ PermuteIdle /\ AnalyzeIdle /\ SortIdle /\ PairIdle /\ SenderIdle
  /\ \E n \in 0..MaxDocs, inbound \in BOOLEAN :
       \E p \in PartitionSends(n) :
         /\ n > 0 => inbound
         /\ io = [step |-> "authenticate", idx |-> 0, phase |-> 0, n |-> n,
                  inbound |-> inbound, later |-> p[1], before |-> p[2],
                  inflight |-> {}, issued |-> 0, successCount |-> 0,
                  totalMs |-> 0, intervalMs |-> 0, remaining |-> 0, sleeps |-> 0]
  /\ Idle

TermUnchanged ==
  UNCHANGED <<rsStatuses, rsLatest, rsPermuted, rsCalls, rsAnalysis,
              sortCall, pairCall, sender, progVars>>

\* An await issues its requests.
TermIssue ==
  /\ io.step \notin {"done", "failed", "wait", "countdown", "saveFile"}
  /\ io.inflight = {}
  /\ LET requests == RequestsAt(io.step, io.idx, io.n, TermSends(io))
     IN io' = [io EXCEPT !.inflight = requests,
                         !.issued = @ + Cardinality(requests),
                         !.successCount = IF io.step = "send" /\ io.idx = 1
                                          THEN 0 ELSE @]
  /\ TermUnchanged

\* A request completes, with a response or with a failure that is caught;
\* sendStatuses counts the submissions that succeeded.  The run goes on
\* when it was the last request awaited.
TermRespond ==
  /\ \E r \in io.inflight, success \in BOOLEAN :
       LET next == TermAfter(io)
           count == IF r.call = "sendBusinessStatus" /\ success
                    THEN io.successCount + 1 ELSE io.successCount
       IN /\ r.call # "sendBusinessStatus" => success
          /\ io' = IF io.inflight = {r}
                   THEN [io EXCEPT !.inflight = {}, !.step = next.step,
                                   !.idx = next.idx, !.phase = next.phase,
                                   !.successCount = count]
                   ELSE [io EXCEPT !.inflight = @ \ {r}]
  /\ TermUnchanged

\* A request fails and nothing catches the failure before main, which
\* exits.
TermFail ==
  /\ Uncaught(io.step)
  /\ io.inflight # {}
  /\ io' = [io EXCEPT !.inflight = {}, !.step = "failed"]
  /\ TermUnchanged

\* handleWaitTime: the countdown starts after a success, else the run goes
\* on at once.
TermHandleWaitTime ==
  /\ io.step = "wait"
  /\ IF io.successCount > 0
     THEN \E args \in CountdownInputs :
            io' = [io EXCEPT !.step = "countdown", !.totalMs = args[1],
                             !.intervalMs = args[2], !.remaining = args[1],
                             !.sleeps = 0]
     ELSE LET next == TermAfterPartition(io)
          IN io' = [io EXCEPT !.step = next.step, !.idx = next.idx,
                              !.phase = next.phase]
  /\ TermUnchanged

\* countdown: one turn of the loop: await sleep(intervalMs);
\* remaining -= intervalMs.
TermSleep ==
  /\ io.step = "countdown"
  /\ CountdownRuns(io.remaining)
  /\ io' = [io EXCEPT !.remaining = @ - io.intervalMs, !.sleeps = @ + 1]
  /\ TermUnchanged

\* countdown: the loop has ended and generateReport goes on.
TermCountdownEnd ==
  /\ io.step = "countdown"
  /\ ~CountdownRuns(io.remaining)
  /\ LET next == TermAfterPartition(io)
     IN io' = [io EXCEPT !.step = next.step, !.idx = next.idx,
                         !.phase = next.phase]
  /\ TermUnchanged

\* saveReportToFile: fileWriter.save(), which may throw; main ends.
TermSaveFile ==
  /\ io.step = "saveFile"
  /\ \E step \in {"done", "failed"} : io' = [io EXCEPT !.step = step]
  /\ TermUnchanged

TermNext ==
  \/ TermIssue
  \/ TermRespond
  \/ TermFail
  \/ TermHandleWaitTime
  \/ TermSleep
  \/ TermCountdownEnd
  \/ TermSaveFile

\* Every request is answered or fails, every sleep ends and every
\* continuation is run.
SpecTerminate == TermInit /\ [][TermNext]_vars /\ WF_vars(TermNext)

\* The requests of a run with n matches: authenticate, the two list
\* fetches and the two list fetches of the report, and for each match at
\* most nine (analysis, split, submission, and for each of print and save
\* the sort, the status and the XML).
RequestBound(n) == 5 + 9 * n

Terminated == io.step \in {"done", "failed"}

\* C21: every run terminates when every request is answered or fails: the
\* number of requests is bounded by the number of fetched documents, and
\* each countdown ends after finitely many sleeps (as many as the
\* intervals needed to cover totalMs) for every positive totalMs and
\* intervalMs, multiples or not.
EveryRunTerminates ==
  /\ [](io.issued <= RequestBound(io.n))
  /\ [](io.sleeps > 0 => (io.sleeps - 1) * io.intervalMs < io.totalMs)
  /\ [](io.step = "countdown" =>
          io.remaining = io.totalMs - io.sleeps * io.intervalMs)
  /\ <>Terminated

\* A run with MaxIn matches has ended after the greatest number of
\* requests and after a countdown of 3 ms in intervals of 2 ms, which
\* slept twice.
CountdownNotMultipleWitness ==
  /\ io.step = "done"
  /\ io.n = MaxIn
  /\ io.issued = RequestBound(io.n)
  /\ io.totalMs = 3 /\ io.intervalMs = 2
  /\ io.sleeps = 2 /\ io.remaining = -1

\* The action line the attempt posts[j] must give: its code with the mark
\* of its outcome, and the stored error of a failure.
ActionOf(j) ==
  <<[statusCode |-> posts[j].statusCode,
     mark |-> IF ~posts[j].success THEN "cross"
              ELSE IF posts[j].statusCode = ACCEPTED THEN "thumbsUp"
              ELSE "thumbsDown",
     error |-> IF posts[j].success THEN Absent
               ELSE processResults[posts[j].documentId].error]>>

\* The section of a match has an action line exactly when a submission was
\* attempted for its inbound document, and the line is that of the attempt.
ActionLineIffAttempted(lines) ==
  \A k \in 1..Len(lines) :
    LET doc == lines[k].inboundId
    IN /\ lines[k].actions # <<>> <=> PostsOf(doc) # {}
       /\ \A j \in PostsOf(doc) :
            /\ lines[k].actions = ActionOf(j)
            /\ ~posts[j].success => lines[k].actions[1].error # Absent
       /\ (\E i \in 1..Len(analysis) :
             analysis[i].documentId = doc /\ analysis[i].isComplete)
            => lines[k].actions = <<>>

\* C22: at the report step a match has an action line ('Acties deze run')
\* exactly when a status submission was attempted for its inbound document
\* earlier in the run, and the line shows the code and the outcome
\* (success, or failure with its error) of that attempt; a document that
\* was complete or was not submitted has no action line.  The error of the
\* attempt made last is the one its response reported.
ActionLineOfAttempt ==
  /\ ActionLineIffAttempted(console)
  /\ ActionLineIffAttempted(fileLines)
  /\ (posts # <<>> /\ lastResp # NoResp /\ ~posts[Len(posts)].success) =>
       processResults[posts[Len(posts)].documentId].error = ReportedError(lastResp)

\* A run with two matches has ended normally: one document was complete
\* and has no action line, the other was submitted without success and
\* has the line of the failure, on the console and in the file.
CompleteAndFailedWitness ==
  /\ pc = "exited" /\ exitCode = 0 /\ saved
  /\ Len(console) = 2 /\ Len(fileLines) = 2
  /\ Len(posts) = 1 /\ ~posts[1].success
  /\ \E k, l \in 1..2 :
       /\ console[k].inboundId = posts[1].documentId
       /\ console[k].actions = ActionOf(1)
       /\ console[k].actions[1].mark = "cross"
       /\ console[l].inboundId # posts[1].documentId
       /\ console[l].actions = <<>>
       /\ \E i \in 1..Len(analysis) :
            analysis[i].documentId = console[l].inboundId /\ analysis[i].isComplete
  /\ \E k \in 1..2 :
       /\ fileLines[k].inboundId = posts[1].documentId
       /\ fileLines[k].actions = ActionOf(1)

====
